---- MODULE Spec2Model ----
(***************************************************************************)
(* scripts/compile-references.js: the script that wires the                *)
(* `compile.tsconfig.json` of every yarn workspace, the root compilation   *)
(* tsconfig and the root navigation `tsconfig.json` to the workspace       *)
(* dependency graph.  One run of the script is a pass; a pass is the       *)
(* sequence of its calls (one configureTypeScriptCompilation per package,  *)
(* one for the monorepo, one configureTypeScriptNavigation, the exit-code  *)
(* decision).  Between passes the files of the repository may be edited.   *)
(*                                                                         *)
(* Paths are sequences of segments relative to ROOT; the process runs with *)
(* ROOT as its working directory, as `yarn` scripts do.                    *)
(***************************************************************************)
EXTENDS Integers, Sequences, FiniteSets, TLC

\* ------------------------------------------------------------------ bounds

\* Passes (runs of the script) in one behaviour.
MaxPasses == 2
\* Edits made to the files of the repository in one behaviour.
MaxEdits == 1

\* ------------------------------------------------------------ the workspaces

\* Object.keys(YARN_WORKSPACES), in the order `yarn workspaces info` lists them.
PkgOrder == <<"a", "b", "c">>

Pkgs == {PkgOrder[i] : i \in 1..Len(PkgOrder)}

\* yarnWorkspace.location of a package.
Location(p) == <<"packages", p>>

\* ROOT, as a path relative to itself.
ROOT == <<>>

\* The `configs` folder holding the root compilation tsconfig.
ConfigsFolder == <<"configs">>

\* The workspace dependency graphs `yarn workspaces info` reports: a package
\* without dependencies, one with one and one with two; a dependency whose
\* compile tsconfig is removed drops out of the references of its dependents.
Graphs ==
    { [a |-> <<>>, b |-> <<"a">>, c |-> <<"a", "b">>] }

\* THEIA_MONOREPO.workspaceDependencies
MonorepoDeps == PkgOrder

MonorepoName == "@theia/monorepo"

\* ------------------------------------------------------------ path (posix)

RECURSIVE NormFrom(_, _)
NormFrom(stack, rest) ==
    IF rest = <<>> THEN stack
    ELSE LET s == Head(rest) IN
         IF s = ".." /\ stack # <<>> /\ stack[Len(stack)] # ".."
         THEN NormFrom(SubSeq(stack, 1, Len(stack) - 1), Tail(rest))
         ELSE NormFrom(Append(stack, s), Tail(rest))

\* path.normalize: `..` segments are resolved against what precedes them.
Normalize(p) == NormFrom(<<>>, p)

\* path.join
Join(p, q) == Normalize(p \o q)

\* path.dirname
Dirname(p) == SubSeq(p, 1, Len(p) - 1)

RECURSIVE CommonLen(_, _)
CommonLen(p, q) ==
    IF p = <<>> \/ q = <<>> \/ Head(p) # Head(q) THEN 0
    ELSE 1 + CommonLen(Tail(p), Tail(q))

\* path.relative(from, to): one `..` for every segment of `from` past the
\* common prefix, then what is left of `to`.
Relative(from, to) ==
    LET n == CommonLen(from, to) IN
    [i \in 1..(Len(from) - n) |-> ".."] \o SubSeq(to, n + 1, Len(to))

\* ------------------------------------------------------------- file contents

\* tsconfigJson.compilerOptions of a compile tsconfig; `has` is whether the
\* literal is defined, "undef" a key that is not set, `keep` an option the
\* script does not know.
DefaultCompilerOptions ==
    [has |-> TRUE, composite |-> "true", rootDir |-> "src", outDir |-> "lib", keep |-> "undef"]

NoCompilerOptions ==
    [has |-> FALSE, composite |-> "undef", rootDir |-> "undef", outDir |-> "undef", keep |-> "undef"]

\* A compile tsconfig file: absent, not parseable, or a JSON object.
AbsentFile == [kind |-> "absent", opts |-> NoCompilerOptions, refs |-> <<>>, extra |-> "undef"]

BadFile == [kind |-> "bad", opts |-> NoCompilerOptions, refs |-> <<>>, extra |-> "undef"]

JsonFile(opts, refs, extra) == [kind |-> "json", opts |-> opts, refs |-> refs, extra |-> extra]

\* One element of `references`: its path, and whether it carries a key other than `path`.
RefEntry(p) == [path |-> p, prepend |-> FALSE]

\* The navigation tsconfig: compilerOptions with baseUrl and paths.
NoNavOptions == [has |-> FALSE, baseUrl |-> "undef", hasPaths |-> FALSE, paths |-> [x \in {} |-> <<>>], keep |-> "undef"]

AbsentNav == [kind |-> "absent", opts |-> NoNavOptions, extra |-> "undef"]

BadNav == [kind |-> "bad", opts |-> NoNavOptions, extra |-> "undef"]

\* ----------------------------------------------------------------- state

VARIABLES
    deps,          \* YARN_WORKSPACES[p].workspaceDependencies
    fs,            \* the files of the repository
    dryRun,        \* DRY_RUN
    forceRewrite,  \* FORCE_REWRITE
    pc,            \* where the pass is: "idle", "compile", "root", "nav", "exit"
    k,             \* index into PkgOrder of the package the loop is at
    rewriteRequired, \* the accumulated flag of the main block
    results,       \* what each call of the pass returned, by step
    written,       \* the files written by the pass
    diag,          \* console.error / console.warn lines of the pass
    fs0,           \* the files when the pass started
    outcome,       \* how the last pass ended: "none", "completed", "aborted"
    exitCode,      \* the exit status of the last pass
    prev,          \* the pass before, when nothing was edited since
    passes,        \* passes started
    edits          \* edits made

vars == <<deps, fs, dryRun, forceRewrite, pc, k, rewriteRequired, results, written,
          diag, fs0, outcome, exitCode, prev, passes, edits>>

\* ----------------------------------------------------------- the filesystem

\* The path of a package's compile tsconfig (line 67; ROOT is the working directory).
CompileTsconfigPath(p) == Join(Location(p), <<"compile.tsconfig.json">>)

\* configs/root-compilation.tsconfig.json
RootTsconfigPath == Join(ConfigsFolder, <<"root-compilation.tsconfig.json">>)

\* ROOT/tsconfig.json
NavTsconfigPath == Join(ROOT, <<"tsconfig.json">>)

\* What fs.statSync finds at a normalized path: "file", "dir", or "none" (it throws).
\* f.man[p] is packages/p/compile.tsconfig.json, f.src[p] whether packages/p/src
\* exists, f.nested[p] what packages/p/tsconfig.json is.
StatKind(f, path) ==
    IF path = ROOT \/ path = <<"packages">> \/ path = ConfigsFolder THEN "dir"
    ELSE IF path = RootTsconfigPath
         THEN (IF f.root.kind = "absent" THEN "none" ELSE "file")
    ELSE IF path = NavTsconfigPath
         THEN (IF f.nav.kind = "absent" THEN "none" ELSE "file")
    ELSE IF Len(path) >= 2 /\ path[1] = "packages" /\ path[2] \in Pkgs
         THEN LET p == path[2] IN
              IF Len(path) = 2 THEN "dir"
              ELSE IF Len(path) > 3 THEN "none"
              ELSE IF path[3] = "compile.tsconfig.json"
                   THEN (IF f.man[p].kind = "absent" THEN "none" ELSE "file")
              ELSE IF path[3] = "src" THEN (IF f.src[p] THEN "dir" ELSE "none")
              ELSE IF path[3] = "tsconfig.json" THEN f.nested[p]
              ELSE "none"
    ELSE "none"

\* A script that does not check that the file exists before it reads it.
ExistsSync_Always(f, path) == TRUE

\* fs.existsSync
ExistsSync(f, path) == StatKind(f, path) # "none"

\* ------------------------------------------------- getTypescriptReferences

RECURSIVE RefsFrom(_, _, _)
RefsFrom(f, from, ds) ==
    IF ds = <<>> THEN <<>>
    ELSE LET depConfig == Join(Location(Head(ds)), <<"compile.tsconfig.json">>)
             rest == RefsFrom(f, from, Tail(ds))
         IN  IF ~ExistsSync(f, depConfig) THEN rest
             ELSE <<Relative(from, Location(Head(ds)))>> \o rest

\* A resolver that does not look for the compile tsconfig of the dependency.
getTypescriptReferences_NoCheck(f, ds, from) ==
    [i \in 1..Len(ds) |-> Relative(from, Location(ds[i]))]

\* The project references of a package whose dependencies are `ds`, relative
\* to `from` (overrideLocation || requestedPackage.location).
getTypescriptReferences(f, ds, from) == RefsFrom(f, from, ds)

\* ------------------------------------------------------------ readJsonFile

\* A readJsonFile that swallows the error and goes on with an empty object.
readJsonFile_Swallow(content) == [throws |-> FALSE, json |-> content]

\* JSON.parse(fs.readFileSync(filePath)): it throws on a file that is not
\* there and on one that does not parse, and the throw is passed on.
readJsonFile(content) == [throws |-> content.kind # "json", json |-> content]

\* The line console.error writes before readJsonFile rethrows.
ParseErrorLine(filePath) == [kind |-> "ParseError", pkg |-> "", path |-> filePath]

\* ------------------------------------------ configureTypeScriptCompilation

\* A condition that forgets DRY_RUN.
ShouldWrite_IgnoreDryRun(dry, force, needRewrite) == force \/ needRewrite

\* A condition that forgets FORCE_REWRITE.
ShouldWrite_IgnoreForce(dry, force, needRewrite) == ~dry /\ needRewrite

\* The condition of lines 172 and 240 under which the file is written.
ShouldWrite(dry, force, needRewrite) == ~dry /\ (force \/ needRewrite)

\* A filter that keeps every reference whose target exists, whatever it is.
RefVerdict_AnyTarget(f, tsconfigPath, rel) ==
    IF StatKind(f, Join(Dirname(tsconfigPath), rel)) = "none" THEN "throw" ELSE "keep"

\* How the filter of lines 146-163 treats one reference path:
\* "keep", "drop" (isValid is false) or "throw" (statSync threw: dropped and logged).
RefVerdict(f, tsconfigPath, rel) ==
    LET referencePath == Join(Dirname(tsconfigPath), rel)
        st == StatKind(f, referencePath)
    IN  IF st = "none" THEN "throw"
        ELSE IF st = "dir"
             THEN LET inner == StatKind(f, Join(referencePath, <<"tsconfig.json">>)) IN
                  IF inner = "none" THEN "throw"
                  ELSE IF inner = "file" THEN "keep"
                  ELSE "drop"
        ELSE "keep"

\* The line console.error writes for a reference whose statSync threw.
InvalidReferenceLine(name, tsconfigPath, rel) ==
    [kind |-> "invalid reference", pkg |-> name, path |-> Join(Dirname(tsconfigPath), rel)]

\* new Set(...): the first occurrence of every element, in order.
RECURSIVE Dedup(_, _)
Dedup(seen, s) ==
    IF s = <<>> THEN seen
    ELSE IF \E i \in 1..Len(seen) : seen[i] = Head(s)
         THEN Dedup(seen, Tail(s))
         ELSE Dedup(Append(seen, Head(s)), Tail(s))

Range(s) == {s[i] : i \in 1..Len(s)}

\* A merge that replaces the references of the file by the computed ones.
MergeReferences_Replace(kept, computed) == Dedup(<<>>, computed)

\* Lines 165-171: every computed reference the set does not hold is added to it.
MergeReferences(kept, computed) == Dedup(kept, computed)

\* A test that compares the list of the file with the computed list, in order.
MissingReference_InOrder(kept, computed) ==
    \E i \in 1..Len(computed) : i > Len(kept) \/ kept[i] # computed[i]

\* Lines 167-170: whether a computed reference is not in the set
\* (!currentReferences.has(tsconfigReference)), which sets needRewrite.
MissingReference(kept, computed) ==
    \E i \in 1..Len(computed) : computed[i] \notin Range(kept)

\* The compilerOptions after lines 126-140, and whether that set needRewrite.
EnsureComposite(opts) ==
    IF ~opts.has
    THEN [opts |-> DefaultCompilerOptions, need |-> FALSE]
    ELSE IF opts.composite # "true"
         \* { composite: true, ...compilerOptions }: a `composite` key of the
         \* file comes after the literal's and wins.
         THEN [opts |-> [opts EXCEPT !.composite =
                            IF opts.composite = "undef" THEN "true" ELSE opts.composite],
               need |-> TRUE]
         ELSE [opts |-> opts, need |-> FALSE]

\* One call of configureTypeScriptCompilation on the file `content` at
\* `tsconfigPath`: what it returns ("none" for the bare return of line 122,
\* "abort" when readJsonFile throws), whether it writes, the content written,
\* and the lines it logs.
configureTypeScriptCompilation(f, name, tsconfigPath, content, references, dry, force) ==
    IF ~ExistsSync(f, tsconfigPath)
    THEN [ret |-> "none", write |-> FALSE, content |-> content, log |-> {}]
    ELSE IF readJsonFile(content).throws
    THEN [ret |-> "abort", write |-> FALSE, content |-> content,
          log |-> {ParseErrorLine(tsconfigPath)}]
    ELSE
    LET ec == EnsureComposite(content.opts)
        paths == [i \in 1..Len(content.refs) |-> content.refs[i].path]
        verdict == [i \in 1..Len(paths) |-> RefVerdict(f, tsconfigPath, paths[i])]
        keptIdx == {i \in 1..Len(paths) : verdict[i] = "keep"}
        kept == Dedup(<<>>, SelectSeq(paths, LAMBDA p : RefVerdict(f, tsconfigPath, p) = "keep"))
        computed == [i \in 1..Len(references) |-> Join(references[i], <<"compile.tsconfig.json">>)]
        merged == MergeReferences(kept, computed)
        needRewrite == \/ ec.need
                       \/ keptIdx # 1..Len(paths)
                       \/ MissingReference(kept, computed)
        write == ShouldWrite(dry, force, needRewrite)
        log == {InvalidReferenceLine(name, tsconfigPath, paths[i]) :
                   i \in {j \in 1..Len(paths) : verdict[j] = "throw"}}
    IN  [ret |-> IF needRewrite THEN "dirty" ELSE "clean",
         write |-> write,
         content |-> IF write
                     THEN [content EXCEPT !.opts = ec.opts,
                                          !.refs = [i \in 1..Len(merged) |-> RefEntry(merged[i])]]
                     ELSE content,
         log |-> log]

\* ------------------------------------------- configureTypeScriptNavigation

\* `${value}` of a key of a JSON object: a key that is not set reads "undefined".
TemplateString(v) == IF v = "undef" THEN "undefined" ELSE v

\* A classification that looks for the compile tsconfig only, not for `src`.
NavAlias_ManifestOnly(f, p) ==
    IF ExistsSync(f, Join(Location(p), <<"compile.tsconfig.json">>))
    THEN IF readJsonFile(f.man[p]).throws \/ ~f.man[p].opts.has
         THEN [throws |-> TRUE, key |-> <<>>, target |-> <<>>]
         ELSE [throws |-> FALSE,
               key |-> <<p, TemplateString(f.man[p].opts.outDir), "*">>,
               target |-> <<"packages", p, "src", "*">>]
    ELSE [throws |-> FALSE, key |-> <<p, "*">>, target |-> <<"packages", p, "*">>]

\* Lines 222-233 for one package: the import path and the fs path it maps to,
\* or a throw (readJsonFile, or reading `outDir` of an undefined compilerOptions).
NavAlias(f, p) ==
    LET depSrcPath == Join(Location(p), <<"src">>)
        depConfigPath == Join(Location(p), <<"compile.tsconfig.json">>)
    IN  IF ExistsSync(f, depConfigPath) /\ ExistsSync(f, depSrcPath)
        THEN IF readJsonFile(f.man[p]).throws \/ ~f.man[p].opts.has
             THEN [throws |-> TRUE, key |-> <<>>, target |-> <<>>]
             ELSE [throws |-> FALSE,
                   key |-> <<p, TemplateString(f.man[p].opts.outDir), "*">>,
                   target |-> Relative(ROOT, Join(depSrcPath, <<"*">>))]
        ELSE [throws |-> FALSE,
              key |-> <<p, "*">>,
              target |-> Relative(ROOT, Join(Location(p), <<"*">>))]

\* Line 235-238 for one alias: currentPaths after it, and whether it changed.
SetAlias(paths, al) ==
    IF al.key \notin DOMAIN paths
       \/ paths[al.key] = <<>>
       \/ paths[al.key][1] # al.target
    THEN [paths |-> [x \in DOMAIN paths \cup {al.key} |->
                        IF x = al.key THEN <<al.target>> ELSE paths[x]],
          need |-> TRUE]
    ELSE [paths |-> paths, need |-> FALSE]

\* The loop of lines 214-239 over `ds`, from the state `acc` of
\* currentPaths / needRewrite / thrown.
RECURSIVE NavLoop(_, _, _)
NavLoop(f, ds, acc) ==
    IF ds = <<>> \/ acc.throws THEN acc
    ELSE LET al == NavAlias(f, Head(ds)) IN
         IF al.throws THEN [acc EXCEPT !.throws = TRUE]
         ELSE LET sa == SetAlias(acc.paths, al) IN
              NavLoop(f, Tail(ds),
                      [paths |-> sa.paths, need |-> acc.need \/ sa.need, throws |-> FALSE])

\* The line console.warn writes after the navigation tsconfig is written.
UpdatedLine(name) == [kind |-> "Updated references", pkg |-> name, path |-> NavTsconfigPath]

\* One call of configureTypeScriptNavigation on the files `f`.
configureTypeScriptNavigation(f, name, dry, force) ==
    IF readJsonFile(f.nav).throws
    THEN [ret |-> "abort", write |-> FALSE, content |-> f.nav,
          log |-> {ParseErrorLine(NavTsconfigPath)}]
    ELSE
    LET o == f.nav.opts
        opts1 == IF ~o.has
                 THEN [has |-> TRUE, baseUrl |-> ".", hasPaths |-> TRUE,
                       paths |-> [x \in {} |-> <<>>], keep |-> "undef"]
                 ELSE IF ~o.hasPaths
                      THEN [o EXCEPT !.hasPaths = TRUE, !.paths = [x \in {} |-> <<>>]]
                      ELSE o
        need1 == ~o.has \/ ~o.hasPaths
        loop == NavLoop(f, MonorepoDeps, [paths |-> opts1.paths, need |-> need1, throws |-> FALSE])
        write == ShouldWrite(dry, force, loop.need)
    IN  IF loop.throws
        THEN [ret |-> "abort", write |-> FALSE, content |-> f.nav, log |-> {}]
        ELSE [ret |-> IF loop.need THEN "dirty" ELSE "clean",
              write |-> write,
              content |-> IF write
                          THEN [f.nav EXCEPT !.opts = [opts1 EXCEPT !.paths = loop.paths]]
                          ELSE f.nav,
              log |-> IF write THEN {UpdatedLine(name)} ELSE {}]

\* -------------------------------------------------------------- main block

\* `rewriteRequired |= returned`: undefined and false leave it, true sets it.
OrAssign(flag, ret) == flag \/ ret = "dirty"

\* The exit status of a process that ends by an uncaught throw.
UncaughtExit == 1

\* An exit-code decision that reports drift only when the files were written.
ExitDecision_QuietDryRun(flag, dry) == IF flag /\ ~dry THEN 1 ELSE 0

\* process.exitCode after lines 83-89.
ExitDecision(flag, dry) == IF flag THEN 1 ELSE 0

\* The steps of a pass, in order: one per package, "root", "nav".
StepNames == PkgOrder \o <<"root", "nav">>

NoResults == [s \in Range(StepNames) |-> "pending"]

\* The files as they are in a repository whose packages were just created:
\* every compile tsconfig exists, none holds a reference or an alias yet.
\* packages/a/tsconfig.json is a file, packages/c/tsconfig.json a directory,
\* packages/b has none: the three things a reference to a directory can find.
Pristine ==
    [man |-> [p \in Pkgs |-> JsonFile(DefaultCompilerOptions, <<>>, "undef")],
     src |-> [p \in Pkgs |-> TRUE],
     nested |-> [a |-> "file", b |-> "none", c |-> "dir"],
     root |-> JsonFile(DefaultCompilerOptions, <<>>, "undef"),
     nav |-> [kind |-> "json",
              opts |-> [has |-> TRUE, baseUrl |-> ".", hasPaths |-> TRUE,
                        paths |-> [x \in {} |-> <<>>], keep |-> "undef"],
              extra |-> "undef"]]

NoPrev == [outcome |-> "none", dry |-> FALSE, force |-> FALSE, e2e |-> FALSE]

Init ==
    /\ deps \in Graphs
    /\ fs = Pristine
    /\ dryRun = FALSE
    /\ forceRewrite = FALSE
    /\ pc = "idle"
    /\ k = 1
    /\ rewriteRequired = FALSE
    /\ results = NoResults
    /\ written = {}
    /\ diag = {}
    /\ fs0 = Pristine
    /\ outcome = "none"
    /\ exitCode = 0
    /\ prev = NoPrev
    /\ passes = 0
    /\ edits = 0

\* The call the main block makes at step `step` on the files `f`.
CallOf(f, dps, step, dry, force) ==
    IF step = "nav"
    THEN configureTypeScriptNavigation(f, MonorepoName, dry, force)
    ELSE IF step = "root"
    THEN configureTypeScriptCompilation(f, MonorepoName, RootTsconfigPath, f.root,
             getTypescriptReferences(f, MonorepoDeps, ConfigsFolder), dry, force)
    ELSE configureTypeScriptCompilation(f, step, CompileTsconfigPath(step), f.man[step],
             getTypescriptReferences(f, dps[step], Location(step)), dry, force)

\* The path of the file step `step` is about.
FileOf(step) ==
    IF step = "nav" THEN NavTsconfigPath
    ELSE IF step = "root" THEN RootTsconfigPath
    ELSE CompileTsconfigPath(step)

\* fs.writeFileSync of the file of `step`: the whole content is replaced.
WriteFileSync(f, step, content) ==
    IF step = "nav" THEN [f EXCEPT !.nav = content]
    ELSE IF step = "root" THEN [f EXCEPT !.root = content]
    ELSE [f EXCEPT !.man[step] = content]

\* The files after the call `r` of step `step`.
AfterCall(f, step, r) == IF r.write THEN WriteFileSync(f, step, r.content) ELSE f

\* A whole pass from the files `f`, as the main block runs it: the files it
\* leaves, the flag, how it ended and the exit status.
RECURSIVE RunFrom(_, _, _, _, _, _)
RunFrom(f, dps, dry, force, steps, flag) ==
    IF steps = <<>>
    THEN [fs |-> f, flag |-> flag, outcome |-> "completed", exit |-> ExitDecision(flag, dry)]
    ELSE LET r == CallOf(f, dps, Head(steps), dry, force) IN
         IF r.ret = "abort"
         THEN [fs |-> f, flag |-> flag, outcome |-> "aborted", exit |-> UncaughtExit]
         ELSE RunFrom(AfterCall(f, Head(steps), r), dps, dry, force, Tail(steps),
                      OrAssign(flag, r.ret))

PassResult(f, dps, dry, force) == RunFrom(f, dps, dry, force, StepNames, FALSE)

\* The packages A, B (on A) and C (on A and B), each with a compile tsconfig
\* that holds no reference.
EndToEndStart(dps, f) ==
    /\ dps = [a |-> <<>>, b |-> <<"a">>, c |-> <<"a", "b">>]
    /\ \A p \in Pkgs : f.man[p].kind = "json" /\ f.man[p].refs = <<>>

\* ---------------------------------------------------------------- actions

\* The script is started with the flags popFlag finds (lines 42-44).
StartPass(dry, force) ==
    /\ pc = "idle"
    /\ passes < MaxPasses
    /\ passes' = passes + 1
    /\ dryRun' = dry
    /\ forceRewrite' = force
    /\ pc' = "compile"
    /\ k' = 1
    /\ rewriteRequired' = FALSE
    /\ results' = NoResults
    /\ written' = {}
    /\ diag' = {}
    /\ fs0' = fs
    /\ prev' = IF outcome = "none" THEN NoPrev
               ELSE [outcome |-> outcome, dry |-> dryRun, force |-> forceRewrite,
                     e2e |-> EndToEndStart(deps, fs0)]
    /\ outcome' = "running"
    /\ UNCHANGED <<deps, fs, exitCode, edits>>

\* The effect of the call of step `step`, and where the pass goes next.
DoStep(step, nextPc, nextK) ==
    \E r \in {CallOf(fs, deps, step, dryRun, forceRewrite)} :
    /\ results' = [results EXCEPT ![step] = r.ret]
    /\ diag' = diag \cup r.log
    /\ IF r.ret = "abort"
       THEN /\ pc' = "idle"
            /\ outcome' = "aborted"
            /\ exitCode' = UncaughtExit
            /\ UNCHANGED <<fs, written, rewriteRequired, k>>
       ELSE /\ fs' = AfterCall(fs, step, r)
            /\ written' = IF r.write THEN written \cup {FileOf(step)} ELSE written
            /\ rewriteRequired' = OrAssign(rewriteRequired, r.ret)
            /\ pc' = nextPc
            /\ k' = nextK
            /\ UNCHANGED <<outcome, exitCode>>
    /\ UNCHANGED <<deps, dryRun, forceRewrite, fs0, prev, passes, edits>>

\* One turn of the loop of lines 65-70.
CompileStep ==
    /\ pc = "compile"
    /\ DoStep(PkgOrder[k], IF k = Len(PkgOrder) THEN "root" ELSE "compile",
              IF k = Len(PkgOrder) THEN k ELSE k + 1)

\* Lines 72-76.
RootStep ==
    /\ pc = "root"
    /\ DoStep("root", "nav", k)

\* Lines 78-80.
NavStep ==
    /\ pc = "nav"
    /\ DoStep("nav", "exit", k)

HelpLine == [kind |-> "out of sync", pkg |-> MonorepoName, path |-> ROOT]

\* Lines 82-89.
ExitStep ==
    /\ pc = "exit"
    /\ exitCode' = ExitDecision(rewriteRequired, dryRun)
    /\ diag' = IF rewriteRequired /\ dryRun THEN diag \cup {HelpLine} ELSE diag
    /\ outcome' = "completed"
    /\ pc' = "idle"
    /\ UNCHANGED <<deps, fs, dryRun, forceRewrite, k, rewriteRequired, results, written,
                   fs0, prev, passes, edits>>

\* ------------------------------------------------- edits between two passes

RemoveAt(s, i) == SubSeq(s, 1, i - 1) \o SubSeq(s, i + 1, Len(s))

\* The reference paths a developer may add by hand to the tsconfig of
\* `step`: one whose target does not exist, one the file already holds and,
\* in the package with one dependency, the directory of a package (tsc
\* accepts a directory that holds a tsconfig.json).
HandWrittenRefs(content, step) ==
    { Relative(Dirname(FileOf(step)), <<"packages", "gone", "compile.tsconfig.json">>) }
    \cup (IF content.refs = <<>> THEN {} ELSE {content.refs[1].path})
    \cup (IF step # "b" THEN {}
          ELSE { Relative(Dirname(FileOf(step)), Location(p)) : p \in Pkgs })

\* The file after a developer gave it values of their own: a top-level key
\* and an option the script does not know, and a key besides `path` in every
\* element of `references`.
UserAuthored(content) ==
    [content EXCEPT !.extra = "user",
                    !.opts.keep = "user",
                    !.refs = [i \in 1..Len(content.refs) |->
                                 [content.refs[i] EXCEPT !.prepend = TRUE]]]

\* What one edit can make of the compile tsconfig of `step`; the options
\* the script reads (composite, outDir) are edited in the first package,
\* the one whose aliases the edits of the navigation tsconfig touch.
ManifestEdits(content, step) ==
    {AbsentFile, BadFile, JsonFile(NoCompilerOptions, <<>>, "undef")}
    \cup (IF content.kind = "json" /\ content.opts.has /\ step = "a"
          THEN {[content EXCEPT !.opts.composite = v] : v \in {"false", "undef"}}
               \cup {[content EXCEPT !.opts.outDir = v] : v \in {"out", "undef"}}
          ELSE {})
    \cup (IF content.kind = "json"
          THEN {[content EXCEPT !.refs = RemoveAt(content.refs, i)] : i \in 1..Len(content.refs)}
               \cup {[content EXCEPT !.refs = Append(content.refs, RefEntry(r))] :
                        r \in HandWrittenRefs(content, step)}
          ELSE {})
    \cup (IF content.kind = "json" /\ content.opts.has
          THEN {UserAuthored(content)}
          ELSE {})

\* Files are edited while no pass runs, and before a pass that will read them.
CanEdit ==
    /\ pc = "idle"
    /\ edits < MaxEdits
    /\ passes < MaxPasses

\* After an edit the record of the last pass no longer describes the files.
Edited ==
    /\ edits' = edits + 1
    /\ outcome' = "none"
    /\ dryRun' = FALSE
    /\ forceRewrite' = FALSE
    /\ rewriteRequired' = FALSE
    /\ results' = NoResults
    /\ written' = {}
    /\ diag' = {}
    /\ exitCode' = 0
    /\ fs0' = fs'
    /\ prev' = NoPrev
    /\ UNCHANGED <<pc, k, passes>>

\* A compile tsconfig of a package, or the root compilation tsconfig, is edited.
EditManifest ==
    /\ CanEdit
    /\ \E step \in Pkgs \cup {"root"} :
          LET cur == IF step = "root" THEN fs.root ELSE fs.man[step] IN
          \E c \in ManifestEdits(cur, step) \ {cur} :
              fs' = WriteFileSync(fs, step, c)
    /\ UNCHANGED deps
    /\ Edited

\* A package gains or loses its `src` directory.
EditDirectory ==
    /\ CanEdit
    /\ \E p \in Pkgs : fs' = [fs EXCEPT !.src[p] = ~fs.src[p]]
    /\ UNCHANGED deps
    /\ Edited

\* What one edit can make of the navigation tsconfig.
NavEdits(content) ==
    {AbsentNav, BadNav, [content EXCEPT !.opts = NoNavOptions]}
    \cup (IF content.kind = "json" /\ content.opts.has /\ content.opts.hasPaths
          THEN LET ps == content.opts.paths IN
               {[content EXCEPT !.opts.hasPaths = FALSE, !.opts.paths = [x \in {} |-> <<>>]]}
               \cup UNION {
                        {[content EXCEPT !.opts.paths[key] = targets] :
                            targets \in { <<<<"elsewhere">>, <<"extra">>>>,
                                          Append(ps[key], <<"extra">>) }} :
                        key \in {x \in DOMAIN ps : x[1] = "a"} }
          ELSE {})
    \cup (IF content.kind = "json" /\ content.opts.has
          THEN {[content EXCEPT !.extra = "user", !.opts.keep = "user"]}
          ELSE {})

\* The root tsconfig.json is edited.
EditNavigation ==
    /\ CanEdit
    /\ \E c \in NavEdits(fs.nav) \ {fs.nav} : fs' = [fs EXCEPT !.nav = c]
    /\ UNCHANGED deps
    /\ Edited

Reverse(s) == [i \in 1..Len(s) |-> s[Len(s) + 1 - i]]

\* What one edit of the `dependencies` of a package.json can make of the
\* workspaceDependencies `ds` that `yarn workspaces info` reports for it: the
\* same dependencies listed in the other order, or the first of several
\* dropped.
DependencyEdits(ds) ==
    {Reverse(ds)} \cup (IF Len(ds) < 2 THEN {} ELSE {Tail(ds)})

\* The dependencies of a package are edited; the next run reads them anew.
EditDependencies ==
    /\ CanEdit
    /\ \E p \in Pkgs : \E ds \in DependencyEdits(deps[p]) \ {deps[p]} :
          deps' = [deps EXCEPT ![p] = ds]
    /\ UNCHANGED fs
    /\ Edited

Next ==
    \/ \E dry \in BOOLEAN, force \in BOOLEAN : StartPass(dry, force)
    \/ CompileStep
    \/ RootStep
    \/ NavStep
    \/ ExitStep
    \/ EditManifest
    \/ EditDirectory
    \/ EditNavigation
    \/ EditDependencies

Spec == Init /\ [][Next]_vars

\* ------------------------------------------------------------- vocabulary

\* The last pass ran to its exit-code decision.
Completed == pc = "idle" /\ outcome = "completed"

\* The last pass ended, by its exit-code decision or by a throw.
PassEnded == pc = "idle" /\ outcome \in {"completed", "aborted"}

\* The steps that configure a compile tsconfig.
CompileSteps == Pkgs \cup {"root"}

\* The content of the file of step `step` in the files `f`.
ContentOf(f, step) ==
    IF step = "nav" THEN f.nav ELSE IF step = "root" THEN f.root ELSE f.man[step]

\* The reference paths of the compile tsconfig of `step`, as a set.
RefSet(f, step) == {ContentOf(f, step).refs[i].path : i \in 1..Len(ContentOf(f, step).refs)}

\* Reference validity as the specification defines it: the target is an
\* existing file, or a directory holding a tsconfig.json file.
ValidTarget(f, step, rel) ==
    LET target == Join(Dirname(FileOf(step)), rel) IN
    \/ StatKind(f, target) = "file"
    \/ /\ StatKind(f, target) = "dir"
       /\ StatKind(f, Join(target, <<"tsconfig.json">>)) = "file"

\* The edges getTypescriptReferences computes for `step`, as the paths the
\* tsconfig records them under.
ComputedEdges(f, dps, step) ==
    LET rs == IF step = "root"
              THEN getTypescriptReferences(f, MonorepoDeps, ConfigsFolder)
              ELSE getTypescriptReferences(f, dps[step], Location(step))
    IN  {Join(rs[i], <<"compile.tsconfig.json">>) : i \in 1..Len(rs)}

StepIndex(step) == CHOOSE i \in 1..Len(StepNames) : StepNames[i] = step

\* ------------------------------------------------------------------ claims

\* C1: when a pass completes, its exit status is 0 if and only if no call
\* (per package, root compilation, navigation) returned that a rewrite was
\* needed, and 1 otherwise, whatever the flags dry-run and force-rewrite are.
C1_ExitStatusIffNoRewrite ==
    Completed =>
        exitCode = (IF \E s \in Range(StepNames) : results[s] = "dirty" THEN 1 ELSE 0)

\* A forced pass that wrote files and still exits 0: force-rewrite is not in the decision.
C1_Witness ==
    /\ Completed /\ forceRewrite /\ ~dryRun
    /\ written # {}
    /\ exitCode = 0

\* C2: after a completed pass without dry-run and without force-rewrite, a
\* second pass on the unchanged files reports nothing to rewrite, exits 0 and
\* writes no file.
C2_Idempotence ==
    (/\ Completed /\ ~forceRewrite
     /\ prev.outcome = "completed" /\ ~prev.dry /\ ~prev.force)
    => /\ exitCode = 0
       /\ written = {}
       /\ \A s \in Range(StepNames) : results[s] # "dirty"

\* C3: under dry-run every file keeps, at every point of the pass, the content
\* it had when the pass started, and no file is created, with or without
\* force-rewrite.
C3_DryRunWritesNothing ==
    (dryRun /\ outcome # "none") => (fs = fs0 /\ written = {})

\* A forced dry run that found drift and ran to its end.
C3_Witness ==
    /\ Completed /\ dryRun /\ forceRewrite
    /\ exitCode = 1
    /\ \E s \in CompileSteps : results[s] = "dirty"

\* C4: a dry-run pass and a pass without dry-run, started from the same files
\* with the same force-rewrite, end with the same aggregated flag and the same
\* exit status.
C4_DryRunReportsTheSame ==
    PassEnded =>
        LET twin == PassResult(fs0, deps, ~dryRun, forceRewrite) IN
        /\ twin.exit = exitCode
        /\ twin.flag = rewriteRequired

\* The premise of C5 for `step` in the files `f`: the tsconfig exists and
\* parses, every reference it holds is valid, and exactly one computed edge
\* is missing from it.
LacksOneEdge(f, dps, step) ==
    /\ ContentOf(f, step).kind = "json"
    /\ Cardinality(ComputedEdges(f, dps, step) \ RefSet(f, step)) = 1
    /\ \A r \in RefSet(f, step) : ValidTarget(f, step, r)

\* C5: a compile tsconfig whose references are all valid and lack exactly one
\* computed edge is reported as needing a rewrite, and a pass without dry-run
\* leaves it with its previous reference set plus exactly that edge.
C5_DriftRepair ==
    \A step \in CompileSteps :
        (results[step] # "pending" /\ LacksOneEdge(fs0, deps, step))
        => /\ results[step] = "dirty"
           /\ ~dryRun =>
                 RefSet(fs, step) =
                     RefSet(fs0, step) \cup (ComputedEdges(fs0, deps, step) \ RefSet(fs0, step))

\* A tsconfig that held a hand-written valid reference and lacked one edge was repaired.
C5_Witness ==
    \E step \in CompileSteps :
        /\ Completed /\ ~dryRun /\ ~forceRewrite
        /\ LacksOneEdge(fs0, deps, step)
        /\ RefSet(fs0, step) # {}
        /\ Cardinality(RefSet(fs, step)) = Cardinality(RefSet(fs0, step)) + 1

\* C6: every reference of a compile tsconfig whose target is not valid is
\* left out of the merged references, makes the call return that a rewrite
\* is needed, and is logged with the package and the dropped path.
C6_InvalidReferencePruned ==
    \A step \in CompileSteps :
        results[step] \in {"clean", "dirty"} =>
            \A r \in RefSet(fs0, step) :
                ~ValidTarget(fs0, step, r) =>
                    /\ results[step] = "dirty"
                    /\ ~dryRun => r \notin RefSet(fs, step)
                    /\ InvalidReferenceLine(IF step = "root" THEN MonorepoName ELSE step,
                                            FileOf(step), r) \in diag

\* C7: from A, B (on A), C (on A and B) with compile tsconfigs holding no
\* reference, a pass without dry-run leaves B with {A} and C with {A, B} and
\* exits 1, and a second pass on the result exits 0.
C7_EndToEnd ==
    /\ (Completed /\ ~dryRun /\ EndToEndStart(deps, fs0))
       => /\ RefSet(fs, "b") = {<<"..", "a", "compile.tsconfig.json">>}
          /\ RefSet(fs, "c") = {<<"..", "a", "compile.tsconfig.json">>,
                                <<"..", "b", "compile.tsconfig.json">>}
          /\ exitCode = 1
    /\ (Completed /\ prev.outcome = "completed" /\ ~prev.dry /\ prev.e2e)
       => exitCode = 0

\* C8: a tsconfig whose content does not parse makes the pass throw at the
\* step that reads it: that step and the later ones write nothing and their
\* files keep the content they had when the pass started, and every file
\* written before that step holds the whole content that was written to it.
C8_FatalParseError ==
    \A step \in Range(StepNames) :
        (results[step] # "pending" /\ ContentOf(fs0, step).kind = "bad")
        => /\ results[step] = "abort"
           /\ PassEnded /\ outcome = "aborted"
           /\ \A later \in Range(StepNames) :
                 StepIndex(later) >= StepIndex(step)
                 => /\ FileOf(later) \notin written
                    /\ ContentOf(fs, later) = ContentOf(fs0, later)
           /\ \A before \in Range(StepNames) :
                 StepIndex(before) < StepIndex(step)
                 => ContentOf(fs, before) =
                       (IF FileOf(before) \in written
                        THEN CallOf(fs0, deps, before, dryRun, forceRewrite).content
                        ELSE ContentOf(fs0, before))

\* The pass threw on a tsconfig that does not parse after it had written another.
C8_Witness ==
    \E step \in Range(StepNames) :
        /\ PassEnded /\ outcome = "aborted"
        /\ ContentOf(fs0, step).kind = "bad"
        /\ results[step] = "abort"
        /\ written # {}

\* C9: for a package, or the monorepo, whose compile tsconfig does not exist,
\* the call returns nothing that sets the aggregated flag, does not throw,
\* and the file is not created, under any flags.
C9_AbsentManifestIsSkipped ==
    /\ \A step \in CompileSteps :
          (outcome # "none" /\ ContentOf(fs0, step).kind = "absent")
          => /\ ContentOf(fs, step).kind = "absent"
             /\ FileOf(step) \notin written
             /\ results[step] \in {"pending", "none"}
    /\ rewriteRequired => \E s \in Range(StepNames) : results[s] = "dirty"

\* A forced pass without dry-run went past a package that has no compile tsconfig.
C9_Witness ==
    \E step \in CompileSteps :
        /\ Completed /\ forceRewrite /\ ~dryRun
        /\ ContentOf(fs0, step).kind = "absent"
        /\ results[step] = "none"
        /\ written # {}

\* No tsconfig has drifted in the files `f`: a pass that only reports runs to
\* its end and finds nothing to rewrite.
NoDrift(f, dps) ==
    LET report == PassResult(f, dps, TRUE, FALSE) IN
    report.outcome = "completed" /\ ~report.flag

\* The steps whose file exists in the files `f`.
ExistingSteps(f) == {s \in Range(StepNames) : ContentOf(f, s).kind # "absent"}

\* C10, as claimed: with force-rewrite, without dry-run and without drift,
\* every existing tsconfig is overwritten and the call returns for each that
\* a rewrite was needed.
C10_ForceRewriteReportsRewrite ==
    (Completed /\ forceRewrite /\ ~dryRun /\ NoDrift(fs0, deps))
    => \A s \in ExistingSteps(fs0) : FileOf(s) \in written /\ results[s] = "dirty"

\* C10, amended: with force-rewrite, without dry-run and without drift, every
\* existing tsconfig is overwritten and the rewrite of the navigation
\* tsconfig is logged, but every call returns that no rewrite was needed and
\* the exit status is 0.
C10_ForceRewriteOverwrites ==
    (Completed /\ forceRewrite /\ ~dryRun /\ NoDrift(fs0, deps))
    => /\ \A s \in ExistingSteps(fs0) : FileOf(s) \in written /\ results[s] = "clean"
       /\ UpdatedLine(MonorepoName) \in diag
       /\ exitCode = 0

\* A forced pass over files without drift, with every tsconfig there, ended.
C10_Witness ==
    /\ Completed /\ forceRewrite /\ ~dryRun
    /\ NoDrift(fs0, deps)
    /\ ExistingSteps(fs0) = Range(StepNames)
    /\ Cardinality(written) = Len(StepNames)

\* The other orders in which the dependencies `ds` can be declared.
Reorderings(ds) == {o \in [1..Len(ds) -> Range(ds)] : Range(o) = Range(ds) /\ o # ds}

\* C11: for the files a pass started from and the dependencies of a package,
\* every other order of the declared dependency list gives the same computed
\* references (as a set), the same merged references in the file (as a set)
\* and the same returned needRewrite as the order the pass ran with (the
\* pass is looked at when it has ended: no later step touches the tsconfig
\* of the package or what its call returned).
C11_OrderIndependent ==
    \A step \in Pkgs :
        (PassEnded /\ results[step] \in {"none", "clean", "dirty"}) =>
            \A o \in Reorderings(deps[step]) :
                \A other \in {[deps EXCEPT ![step] = o]} :
                \A q \in {CallOf(fs0, other, step, dryRun, forceRewrite)} :
                    /\ ComputedEdges(fs0, other, step) = ComputedEdges(fs0, deps, step)
                    /\ q.ret = results[step]
                    /\ Range([i \in 1..Len(q.content.refs) |-> q.content.refs[i].path])
                          = RefSet(fs, step)

\* The dependencies of c were put in the other order after its references
\* were written, and the next pass found nothing to rewrite in its tsconfig.
C11_Witness ==
    /\ Completed /\ ~dryRun /\ ~forceRewrite
    /\ deps["c"] = <<"b", "a">>
    /\ results["c"] = "clean"
    /\ Len(fs.man["c"].refs) = 2
    /\ fs.man["c"].refs[1].path = <<"..", "a", "compile.tsconfig.json">>

\* The alias map of the navigation tsconfig in the files `f` (empty when the
\* file holds none).
AliasMap(f) ==
    IF f.nav.kind = "json" /\ f.nav.opts.has /\ f.nav.opts.hasPaths
    THEN f.nav.opts.paths
    ELSE [x \in {} |-> <<>>]

\* C12: when the navigation tsconfig already maps the import path computed
\* for a package to more than one target, a pass without dry-run replaces
\* only the first target if it differs from the computed one, returning that
\* a rewrite is needed, and keeps the targets after the first; if the first
\* target is the computed one the list is left as it was.
C12_FirstSlotOnly ==
    (Completed /\ ~dryRun) =>
        \A p \in Pkgs :
            LET al == NavAlias(fs, p)
                old == AliasMap(fs0)
                new == AliasMap(fs)
            IN  (al.key \in DOMAIN old /\ Len(old[al.key]) > 1) =>
                    IF old[al.key][1] # al.target
                    THEN /\ results["nav"] = "dirty"
                         /\ new[al.key] = <<al.target>> \o Tail(old[al.key])
                    ELSE new[al.key] = old[al.key]

\* The import paths the alias map of the files `f` holds for package `p`.
AliasKeysOf(f, p) == {x \in DOMAIN AliasMap(f) : x[1] = p}

\* C13: after every completed pass without dry-run, the alias map of the
\* navigation tsconfig holds exactly one import path for every package,
\* also after a package gained or lost its compile tsconfig or its src
\* directory, or changed its outDir, since the pass before.
C13_OneAliasPerPackage ==
    (Completed /\ ~dryRun) =>
        \A p \in Pkgs : Cardinality(AliasKeysOf(fs, p)) = 1

\* C14: after every completed pass without dry-run, every compile tsconfig
\* that exists (of a package, or the root compilation one) has
\* compilerOptions with composite true, whether the file had no
\* compilerOptions, compilerOptions without composite, or composite false
\* before the pass.
C14_CompositeEnsured ==
    (Completed /\ ~dryRun) =>
        \A step \in CompileSteps :
            ContentOf(fs, step).kind # "absent" =>
                /\ ContentOf(fs, step).opts.has
                /\ ContentOf(fs, step).opts.composite = "true"

\* C15: after every completed pass without dry-run, no compile tsconfig
\* that exists holds the same reference path twice, also when the file held
\* a path twice before the pass and nothing else in it had drifted.
C15_NoDuplicateReferences ==
    (Completed /\ ~dryRun) =>
        \A step \in CompileSteps :
            ContentOf(fs, step).kind # "absent" =>
                Cardinality(RefSet(fs, step)) = Len(ContentOf(fs, step).refs)

\* The elements of `references` of the compile tsconfig of `step`, as a set.
RefEntries(f, step) ==
    {ContentOf(f, step).refs[i] : i \in 1..Len(ContentOf(f, step).refs)}

\* C16: whenever a pass writes a compile tsconfig or the navigation
\* tsconfig, the values the script does not own are the ones the file had:
\* the top-level keys other than `references`, the options other than
\* composite (and, in the navigation tsconfig, other than the aliases being
\* set), and every key of each element of `references` whose path is kept.
C16_PassthroughPreserved ==
    \A step \in Range(StepNames) :
        (FileOf(step) \in written /\ ContentOf(fs0, step).kind = "json") =>
            LET old == ContentOf(fs0, step)
                new == ContentOf(fs, step)
            IN  /\ new.extra = old.extra
                /\ old.opts.has => new.opts.keep = old.opts.keep
                /\ (old.opts.has /\ step # "nav") =>
                       /\ new.opts.rootDir = old.opts.rootDir
                       /\ new.opts.outDir = old.opts.outDir
                /\ (old.opts.has /\ step = "nav") => new.opts.baseUrl = old.opts.baseUrl
                /\ step # "nav" =>
                       \A e \in RefEntries(fs0, step) :
                           e.path \in RefSet(fs, step) => e \in RefEntries(fs, step)

\* The path from the folder of the tsconfig of `step` to package `d`.
PathTo(step, d) == IF step = "root" THEN <<"..", "packages", d>> ELSE <<"..", d>>

\* The declared dependencies of `step`; of the monorepo, every package.
DirectDeps(dps, step) == IF step = "root" THEN Pkgs ELSE Range(dps[step])

\* What getTypescriptReferences returns for `step`, as a set.
ResolvedSet(f, dps, step) ==
    LET rs == IF step = "root"
              THEN getTypescriptReferences(f, MonorepoDeps, ConfigsFolder)
              ELSE getTypescriptReferences(f, dps[step], Location(step))
    IN  Range(rs)

\* C17: for every package and for the monorepo, and for the files and the
\* dependencies any pass can start from, getTypescriptReferences returns
\* exactly the paths to the direct dependencies whose compile tsconfig
\* exists: a dependency without one is left out, and a dependency of a
\* dependency is not returned unless it is a direct dependency too.
C17_DirectEdgesOnly ==
    \A step \in CompileSteps :
        pc = "idle" =>
        \A resolved \in {ResolvedSet(fs, deps, step)} :
            /\ resolved =
                  {PathTo(step, d) : d \in {e \in DirectDeps(deps, step) : fs.man[e].kind # "absent"}}
            /\ \A d \in DirectDeps(deps, step) : \A t \in Range(deps[d]) :
                  t \notin DirectDeps(deps, step) => PathTo(step, t) \notin resolved

\* c depends on b only and b on a: a pass gave c the reference to b and not
\* the one to a, whose compile tsconfig exists.
C17_Witness ==
    /\ Completed /\ ~dryRun
    /\ deps["c"] = <<"b">> /\ deps["b"] = <<"a">>
    /\ fs.man["a"].kind = "json"
    /\ results["c"] = "dirty"
    /\ RefSet(fs, "c") = {<<"..", "b", "compile.tsconfig.json">>}

\* A package is buildable: it has a compile tsconfig file and a src directory.
Buildable(f, p) == f.man[p].kind # "absent" /\ f.src[p]

\* The text of outDir in an import path; a compile tsconfig without outDir
\* gives the text "undefined".
OutDirText(f, p) ==
    IF f.man[p].opts.outDir = "undef" THEN "undefined" ELSE f.man[p].opts.outDir

\* C18: whenever the navigation step returns, the alias it computes for a
\* package is <package>/<outDir>/* mapped to the src/* of the package if the
\* package is buildable, and <package>/* mapped to the root of the package
\* if it is not; and after a completed pass without dry-run the first target
\* recorded under that import path is that path, for every package.
C18_AliasClassification ==
    /\ results["nav"] \in {"clean", "dirty"} =>
          \A p \in Pkgs :
              LET al == NavAlias(fs, p) IN
              /\ ~al.throws
              /\ Buildable(fs, p) =>
                     /\ al.key = <<p, OutDirText(fs, p), "*">>
                     /\ al.target = <<"packages", p, "src", "*">>
              /\ ~Buildable(fs, p) =>
                     /\ al.key = <<p, "*">>
                     /\ al.target = <<"packages", p, "*">>
    /\ (Completed /\ ~dryRun) =>
          \A p \in Pkgs :
              LET key == IF Buildable(fs, p) THEN <<p, OutDirText(fs, p), "*">> ELSE <<p, "*">>
                  target == IF Buildable(fs, p) THEN <<"packages", p, "src", "*">>
                            ELSE <<"packages", p, "*">>
              IN  /\ key \in DOMAIN AliasMap(fs)
                  /\ AliasMap(fs)[key] # <<>>
                  /\ AliasMap(fs)[key][1] = target

\* A pass gave package a, which has no src directory, the alias to its root,
\* and package b, which has one, the alias of its outDir to its src.
C18_Witness ==
    /\ Completed /\ ~dryRun
    /\ ~Buildable(fs, "a") /\ Buildable(fs, "b")
    /\ FileOf("nav") \in written
    /\ AliasMap(fs)[<<"a", "*">>] = << <<"packages", "a", "*">> >>
    /\ AliasMap(fs)[<<"b", "lib", "*">>] = << <<"packages", "b", "src", "*">> >>

\* C19: after every completed pass without dry-run, every compile tsconfig
\* that exists (of a package, or the root compilation one) holds every
\* reference getTypescriptReferences computes for it, every reference it
\* holds has a valid target (an existing file, or a directory holding a
\* tsconfig.json file), and every reference the pass removed had an invalid
\* target.
C19_Convergence ==
    (Completed /\ ~dryRun) =>
        \A step \in CompileSteps :
            ContentOf(fs, step).kind # "absent" =>
                /\ ComputedEdges(fs, deps, step) \subseteq RefSet(fs, step)
                /\ \A r \in RefSet(fs, step) : ValidTarget(fs, step, r)
                /\ \A r \in RefSet(fs0, step) \ RefSet(fs, step) : ~ValidTarget(fs0, step, r)

\* A pass removed an invalid reference from a compile tsconfig and left it
\* with exactly its two computed edges.
C19_Witness ==
    \E step \in CompileSteps :
        /\ Completed /\ ~dryRun
        /\ results[step] = "dirty"
        /\ RefSet(fs0, step) \ RefSet(fs, step) # {}
        /\ Cardinality(ComputedEdges(fs, deps, step)) = 2
        /\ RefSet(fs, step) = ComputedEdges(fs, deps, step)

\* Every tsconfig of the files `f` that exists parses, and the navigation
\* tsconfig exists.
AllParse(f) ==
    /\ \A step \in CompileSteps : ContentOf(f, step).kind # "bad"
    /\ f.nav.kind = "json"

\* C20: a pass started, under any flags, from files in which the navigation
\* tsconfig exists and every tsconfig parses makes every call (one per
\* package, root compilation, navigation) and ends by the exit-code
\* decision, never by a throw, also when the compile tsconfig of a buildable
\* package has no compilerOptions or no outDir.
C20_NoAbortOnParseableInput ==
    (PassEnded /\ AllParse(fs0)) =>
        /\ outcome = "completed"
        /\ \A s \in Range(StepNames) : results[s] \in {"none", "clean", "dirty"}

====
